---- MODULE Spec2Model ----
(***************************************************************************)
(* Image storage service: four request handlers (upload, list, view,       *)
(* delete) over a blob store (S3 bucket) and a metadata store (DynamoDB    *)
(* table).  Every handler is modelled from src/lambda_functions/*.py: the  *)
(* local part of a handler is a pure operator, every remote store call is  *)
(* one step whose outcome (success, ClientError, other exception) is       *)
(* chosen nondeterministically.                                            *)
(***************************************************************************)
EXTENDS Integers, Sequences, FiniteSets, TLC

VARIABLES
  table,     \* the DynamoDB table: image_id -> item
  bucket,    \* the S3 bucket: the keys that hold an object
  nextId,    \* how many identifiers uuid4 has handed out
  req,       \* per invocation: the event, the position in the handler, its locals
  uploaded,  \* image_ids of the 201 responses delivered so far
  deleted,   \* image_ids of the 200 Delete responses delivered so far
  issued,    \* image_ids of stored records for which a Delete was issued so far
  session    \* the paging client's filters, cursor and received pages

vars == <<table, bucket, nextId, req, uploaded, deleted, issued, session>>

(***************************************************************************)
(* Bounds and input domains                                                *)
(***************************************************************************)
\* number of image ids uuid4 hands out in one behaviour
MaxUploads == 2

\* the uuid4 strings, in the order in which the table scan visits them
IdSeq == <<"i1", "i2", "i3", "i4">>

Procs == {"p1"}

Users == {"u1", "u2"}

TagLists == {<<"b">>, <<"a", "b">>}

TagNames == {"a", "b"}

\* Python's None for a string-valued parameter
None == "<None>"

\* base64 payloads as character sequences: "A" is an alphabet character,
\* "=" the pad character, "!" a character outside the alphabet
Payloads ==
  { <<"A", "A", "A", "A">>, <<"A", "A", "=", "=">>, <<"A", "A", "A">>,
    <<"A">>, <<"!", "A", "A", "A", "A">>, <<"A", "A", "=">> }

\* outcomes of one remote call: success, botocore ClientError (with the
\* error code NoSuchKey or with another code), any other exception (connection failure, parameter validation, ...)
Ok == "ok"
ClientError == "ClientError"
NoSuchKey == "NoSuchKey"
OtherError == "Exception"
Outcomes == {Ok, ClientError, NoSuchKey, OtherError}

\* NoSuchKey is a ClientError whose error code is 'NoSuchKey'
IsClientError(outcome) == outcome \in {ClientError, NoSuchKey}

\* JSON null
Null == [null |-> TRUE]

(***************************************************************************)
(* Python helpers                                                          *)
(***************************************************************************)
\* dict.get(key, default)
Get(d, k, default) == IF k \in DOMAIN d THEN d[k] ELSE default

\* `not d.get(k)` for a string- or sequence-valued entry
Falsy(d, k, empty) == k \notin DOMAIN d \/ d[k] = empty

\* `event.get(k) or {}`
OrEmpty(event, k) == IF k \in DOMAIN event /\ event[k] # Null THEN event[k] ELSE <<>>

\* json.dumps / json.loads: a JSON text is either the encoding of a value
\* or not JSON at all
JsonDumps(v) == [ok |-> TRUE, v |-> v]
NotJson == [ok |-> FALSE]
EmptyText == [ok |-> FALSE, empty |-> TRUE]
JsonLoads(s) == IF s.ok THEN [raised |-> FALSE, v |-> s.v] ELSE [raised |-> TRUE]

\* base64.b64decode(s) with validate=False (binascii.a2b_base64): characters
\* outside the alphabet are discarded, a pad sequence that completes the
\* quad ends the parse, a leftover partial quad raises binascii.Error.
\* The result is the number of decoded bytes, or -1 for the exception.
RECURSIVE A2bBase64(_, _, _, _, _)
A2bBase64(s, i, quad_pos, pads, nbytes) ==
  IF i > Len(s)
  THEN IF quad_pos # 0 THEN -1 ELSE nbytes
  ELSE IF s[i] = "="
       THEN IF quad_pos >= 2 /\ quad_pos + pads + 1 >= 4
            THEN nbytes
            ELSE A2bBase64(s, i + 1, quad_pos,
                           IF quad_pos >= 2 THEN pads + 1 ELSE pads, nbytes)
       ELSE IF s[i] # "A"
            THEN A2bBase64(s, i + 1, quad_pos, pads, nbytes)
            ELSE A2bBase64(s, i + 1, (quad_pos + 1) % 4, 0,
                           IF quad_pos = 0 THEN nbytes ELSE nbytes + 1)

B64Decode(s) == A2bBase64(s, 1, 0, 0, 0)

\* the uniform response envelope
Response(status, body) == [statusCode |-> status, body |-> body]

ErrorResponse(status, msg) == Response(status, [error |-> msg])

AwsError == "AWS service error"
InternalError == "Internal server error"

RaisedAsUnavailable(outcome) == ErrorResponse(503, InternalError)

\* the response of the handlers' outer except clauses
Raised(outcome) ==
  IF IsClientError(outcome) THEN ErrorResponse(500, AwsError)
  ELSE ErrorResponse(500, InternalError)

S3KeySwapped(user_id, image_id) == <<image_id, "/", user_id>>

\* f"{user_id}/{image_id}"
S3Key(user_id, image_id) == <<user_id, "/", image_id>>

S3Url(s3_key) == <<"s3://", "image-storage-bucket", "/">> \o s3_key

CalledWithRetry(calls, name) == Append(Append(calls, name), name)

\* the store calls of a request, in order, after one more call
Called(calls, name) == Append(calls, name)

Idle == [pc |-> "idle"]

Done(kind, event, resp, locals) ==
  [pc |-> "done", kind |-> kind, event |-> event, resp |-> resp, locals |-> locals]

(***************************************************************************)
(* Upload (upload_image.py)                                                *)
(***************************************************************************)
\* request bodies: the complete ones, then the ones with a missing, empty or
\* undecodable field
UploadDicts ==
  { [user_id |-> "u1", image_data |-> <<"A", "A", "A", "A">>, tags |-> <<"a", "b">>],
    [user_id |-> "u2", image_data |-> <<"A", "A", "=", "=">>, title |-> "t",
     description |-> "d", tags |-> <<"b">>],
    [user_id |-> "u1", image_data |-> <<"!", "A", "A", "A", "A">>, title |-> "",
     tags |-> <<"a", "b">>] }
  \cup { [user_id |-> u, image_data |-> d, tags |-> <<"a", "b">>] :
           u \in {"", "u1"}, d \in (Payloads \cup {<<>>}) \ {<<"A", "A", "A", "A">>} }
  \cup { [image_data |-> <<"A", "A", "A", "A">>, title |-> "t"],
         [image_data |-> <<"A">>],
         [user_id |-> "u1", title |-> "t"],
         [dummy |-> "x"] }

\* event['body']: absent, null, an already-parsed object, or a JSON string
UploadEvents ==
  { [nobody |-> TRUE] }
  \cup { [body |-> [t |-> "null"]] }
  \cup { [body |-> [t |-> "dict", v |-> d]] : d \in UploadDicts }
  \cup { [body |-> [t |-> "str", v |-> JsonDumps([t |-> "dict", v |-> d])]]
           : d \in UploadDicts }
  \cup { [body |-> [t |-> "str", v |-> NotJson]],
         [body |-> [t |-> "str", v |-> JsonDumps([t |-> "list"])]] }

\* lines 43-47: the parsed body, or the exception json.loads raises
UploadBody(event) ==
  IF "body" \in DOMAIN event /\ event.body.t = "str"
  THEN JsonLoads(event.body.v)
  ELSE [raised |-> FALSE, v |-> Get(event, "body", [t |-> "dict", v |-> <<>>])]

\* lines 75-85: the answer to an exception raised by base64.b64decode
DecodeFailedAs500 == ErrorResponse(500, InternalError)

DecodeFailed == ErrorResponse(400, "Invalid image data")

\* line 70: datetime.now(timezone.utc).isoformat(), read once by the request
\* that draws image_id; the clock shows a different time at every Upload
Timestamp(image_id) == <<"T", image_id>>

\* lines 42-85, the part of the handler before the first store call:
\* either a response, or the locals the store calls work with
UploadLocal(event, image_id) ==
  LET parsed == UploadBody(event) IN
  IF parsed.raised \/ parsed.v.t # "dict"
  THEN [ret |-> TRUE, uuid |-> FALSE, resp |-> ErrorResponse(500, InternalError)]
  ELSE LET body == parsed.v.v IN
       IF Falsy(body, "user_id", "") \/ Falsy(body, "image_data", <<>>)
       THEN [ret |-> TRUE, uuid |-> FALSE,
             resp |-> ErrorResponse(400,
               "Missing required fields: user_id and image_data are required")]
       ELSE IF B64Decode(body.image_data) < 0
            THEN [ret |-> TRUE, uuid |-> TRUE, resp |-> DecodeFailed]
            ELSE [ret |-> FALSE, uuid |-> TRUE,
                  image_id |-> image_id,
                  s3_key |-> S3Key(body.user_id, image_id),
                  metadata |->
                    [image_id |-> image_id,
                     user_id |-> body.user_id,
                     title |-> Get(body, "title", ""),
                     description |-> Get(body, "description", ""),
                     tags |-> Get(body, "tags", <<>>),
                     s3_key |-> S3Key(body.user_id, image_id),
                     s3_url |-> S3Url(S3Key(body.user_id, image_id)),
                     created_at |-> Timestamp(image_id),
                     updated_at |-> Timestamp(image_id)]]

Uuid4Repeating == IdSeq[1]

\* str(uuid.uuid4()): an identifier no earlier call returned
Uuid4 == IdSeq[nextId + 1]

BlobWrittenOrRejected(outcome) == outcome \in {Ok, ClientError}

\* lines 89-94: put_object returned, so the handler goes on to the metadata
BlobWritten(outcome) == outcome = Ok

\* lines 42-94: parse, validate, decode, then s3_client.put_object
UploadPutObject(p) ==
  /\ req[p].pc = "idle"
  /\ \E event \in UploadEvents, outcome \in Outcomes :
       LET loc == UploadLocal(event, IF nextId < MaxUploads THEN Uuid4 ELSE None) IN
       /\ loc.uuid => nextId < MaxUploads
       /\ nextId' = IF loc.uuid THEN nextId + 1 ELSE nextId
       /\ IF loc.ret
          THEN /\ outcome = Ok
               /\ req' = [req EXCEPT ![p] =
                    Done("upload", event, loc.resp, [calls |-> <<>>, outs |-> <<>>])]
               /\ UNCHANGED bucket
          ELSE IF BlobWritten(outcome)
               THEN /\ bucket' = IF outcome = Ok THEN bucket \cup {loc.s3_key} ELSE bucket
                    /\ req' = [req EXCEPT ![p] =
                         [pc |-> "put_item", kind |-> "upload", event |-> event,
                          locals |-> [image_id |-> loc.image_id, s3_key |-> loc.s3_key,
                                      metadata |-> loc.metadata,
                                      calls |-> <<"put_object">>,
                                      outs |-> <<outcome>>]]]
               ELSE /\ UNCHANGED bucket
                    /\ req' = [req EXCEPT ![p] = Done("upload", event, Raised(outcome),
                         [image_id |-> loc.image_id, s3_key |-> loc.s3_key,
                          calls |-> <<"put_object">>, outs |-> <<outcome>>])]
  /\ UNCHANGED <<table, uploaded, deleted, issued, session>>

PutItemDropped(tbl, item) == tbl

\* table.put_item(Item=metadata): insert or overwrite by primary key
PutItem(tbl, item) ==
  [i \in DOMAIN tbl \cup {item.image_id} |-> IF i = item.image_id THEN item ELSE tbl[i]]

AfterFailedPutItemRolledBack(bkt, s3_key) == bkt \ {s3_key}

\* lines 129-150: the except clauses return and call nothing, so the bucket
\* stays as put_object left it
AfterFailedPutItem(bkt, s3_key) == bkt

\* lines 112-127, and the except clauses of lines 129-150
UploadPutItem(p) ==
  /\ req[p].pc = "put_item"
  /\ \E outcome \in Outcomes :
       LET l == req[p].locals
           locals == [image_id |-> l.image_id, s3_key |-> l.s3_key,
                      calls |-> Called(l.calls, "put_item"),
                      outs |-> Append(l.outs, outcome)]
       IN
       IF outcome = Ok
       THEN /\ table' = PutItem(table, l.metadata)
            /\ UNCHANGED bucket
            /\ req' = [req EXCEPT ![p] = Done("upload", req[p].event,
                 Response(201, [message |-> "Image uploaded successfully",
                                image_id |-> l.image_id,
                                metadata |-> l.metadata]),
                 locals)]
       ELSE /\ UNCHANGED table
            /\ bucket' = AfterFailedPutItem(bucket, l.s3_key)
            /\ req' = [req EXCEPT ![p] =
                 Done("upload", req[p].event, Raised(outcome), locals)]
  /\ UNCHANGED <<nextId, uploaded, deleted, issued, session>>

(***************************************************************************)
(* The metadata store's scan (DynamoDB Table.scan)                         *)
(***************************************************************************)
Min(a, b) == IF a < b THEN a ELSE b

Pos(id) == CHOOSE n \in 1..Len(IdSeq) : IdSeq[n] = id

InSeq(x, s) == \E n \in 1..Len(s) : s[n] = x

MatchesAny(item, filter) ==
  \E c \in filter :
     IF c[1] = "eq" THEN item.user_id = c[2] ELSE InSeq(c[2], item.tags)

\* a FilterExpression is a set of conditions joined by &:
\* Attr('user_id').eq(v) is <<"eq", v>>, Attr('tags').contains(v) is
\* <<"contains", v>>
Matches(item, filter) ==
  \A c \in filter :
     IF c[1] = "eq" THEN item.user_id = c[2] ELSE InSeq(c[2], item.tags)

\* a scan that keeps reading segments until Limit matching items are found
ScanAggregating(tbl, kwargs, lekAtEnd) ==
  LET order == SelectSeq(IdSeq, LAMBDA i : i \in DOMAIN tbl)
      rest == IF "ExclusiveStartKey" \in DOMAIN kwargs
              THEN SelectSeq(order,
                     LAMBDA i : Pos(i) > Pos(kwargs.ExclusiveStartKey.image_id))
              ELSE order
      filter == Get(kwargs, "FilterExpression", {})
      matching == SelectSeq(rest, LAMBDA i : Matches(tbl[i], filter))
      n == Min(kwargs.Limit, Len(matching))
      items == [k \in 1..n |-> tbl[matching[k]]]
  IN IF n > 0 /\ (Len(matching) > n \/ lekAtEnd)
     THEN [Items |-> items, LastEvaluatedKey |-> [image_id |-> matching[n]]]
     ELSE [Items |-> items]

\* One scan: the store walks its items in key order from the exclusive
\* start key, evaluates at most Limit of them and returns those that match
\* the filter.  LastEvaluatedKey is returned when items remain behind the
\* evaluated segment; when the segment ends exactly at the last item the
\* store may or may not return it (lekAtEnd).
Scan(tbl, kwargs, lekAtEnd) ==
  LET order == SelectSeq(IdSeq, LAMBDA i : i \in DOMAIN tbl)
      rest == IF "ExclusiveStartKey" \in DOMAIN kwargs
              THEN SelectSeq(order,
                     LAMBDA i : Pos(i) > Pos(kwargs.ExclusiveStartKey.image_id))
              ELSE order
      n == Min(kwargs.Limit, Len(rest))
      evaluated == SubSeq(rest, 1, n)
      filter == Get(kwargs, "FilterExpression", {})
      hits == SelectSeq(evaluated, LAMBDA i : Matches(tbl[i], filter))
      items == [k \in 1..Len(hits) |-> tbl[hits[k]]]
  IN IF n > 0 /\ (Len(rest) > n \/ (Len(rest) = n /\ n = kwargs.Limit /\ lekAtEnd))
     THEN [Items |-> items, LastEvaluatedKey |-> [image_id |-> evaluated[n]]]
     ELSE [Items |-> items]

(***************************************************************************)
(* List (list_images.py)                                                   *)
(***************************************************************************)
\* int(s) for the limit strings the model sends; 0 stands for ValueError
IntOf(s) ==
  CASE s = "0" -> [raised |-> FALSE, v |-> 0]
    [] s = "1" -> [raised |-> FALSE, v |-> 1]
    [] s = "2" -> [raised |-> FALSE, v |-> 2]
    [] s = "3" -> [raised |-> FALSE, v |-> 3]
    [] OTHER -> [raised |-> TRUE]

DefaultLimit == 100

Cursors == {JsonDumps([image_id |-> IdSeq[k]]) : k \in 1..MaxUploads} \cup {NotJson}

\* event['queryStringParameters']
ListEvents ==
  { [nothing |-> TRUE], [queryStringParameters |-> Null] }
  \cup { [queryStringParameters |-> q] :
           q \in [user_id : Users \cup {""}, tag : TagNames \cup {""},
                  limit : {"1", "2"}]
              \cup [user_id : Users, limit : {"1", "2"}]
              \cup [tag : TagNames, limit : {"1", "2"}]
              \cup [limit : {"0", "1", "2", "x"}]
              \cup [user_id : {"u1"}, limit : {"2"}, last_evaluated_key : Cursors]
              \cup [tag : {"b"}, limit : {"2"}, last_evaluated_key : Cursors]
              \cup [limit : {"1", "2"}, last_evaluated_key : Cursors]
              \cup [last_evaluated_key : Cursors \cup {EmptyText}] }

\* lines 32-72: the keyword arguments of the one table.scan call,
\* or the exception raised while building them
ScanKwargs(event) ==
  LET q == OrEmpty(event, "queryStringParameters")
      limit == IF "limit" \in DOMAIN q THEN IntOf(q.limit)
               ELSE [raised |-> FALSE, v |-> DefaultLimit]
  IN IF limit.raised THEN [raised |-> TRUE]
     ELSE IF ~Falsy(q, "user_id", "")
     THEN IF ~Falsy(q, "tag", "")
          THEN [raised |-> FALSE,
                kw |-> [FilterExpression |-> {<<"eq", q.user_id>>, <<"contains", q.tag>>},
                        Limit |-> limit.v]]
          ELSE [raised |-> FALSE,
                kw |-> [FilterExpression |-> {<<"eq", q.user_id>>}, Limit |-> limit.v]]
     ELSE IF ~Falsy(q, "tag", "")
     THEN [raised |-> FALSE,
           kw |-> [FilterExpression |-> {<<"contains", q.tag>>}, Limit |-> limit.v]]
     ELSE IF ~Falsy(q, "last_evaluated_key", EmptyText)
     THEN LET k == JsonLoads(q.last_evaluated_key) IN
          IF k.raised THEN [raised |-> TRUE]
          ELSE [raised |-> FALSE, kw |-> [Limit |-> limit.v, ExclusiveStartKey |-> k.v]]
     ELSE [raised |-> FALSE, kw |-> [Limit |-> limit.v]]

ListResultByCount(response) ==
  LET images == Get(response, "Items", <<>>) IN
  IF Len(images) > 0
  THEN Response(200, [images |-> images, count |-> Len(images),
                      last_evaluated_key |->
                        JsonDumps(Get(response, "LastEvaluatedKey", Null)),
                      has_more |-> TRUE])
  ELSE Response(200, [images |-> images, count |-> Len(images), has_more |-> FALSE])

\* lines 74-95: the response built from the scan's result
ListResult(response) ==
  LET images == Get(response, "Items", <<>>) IN
  IF "LastEvaluatedKey" \in DOMAIN response
  THEN Response(200, [images |-> images, count |-> Len(images),
                      last_evaluated_key |-> JsonDumps(response.LastEvaluatedKey),
                      has_more |-> TRUE])
  ELSE Response(200, [images |-> images, count |-> Len(images), has_more |-> FALSE])

\* the whole handler for one event and one outcome of its scan
ListHandler(event, tbl, outcome, lekAtEnd) ==
  LET a == ScanKwargs(event) IN
  IF a.raised
  THEN [resp |-> ErrorResponse(500, InternalError),
        locals |-> [calls |-> <<>>, outs |-> <<>>]]
  ELSE IF a.kw.Limit < 1 \/ outcome # Ok
  THEN [resp |-> Raised(IF outcome = Ok THEN OtherError ELSE outcome),
        locals |-> [calls |-> <<"scan">>,
                    outs |-> <<IF outcome = Ok THEN OtherError ELSE outcome>>,
                    kwargs |-> a.kw]]
  ELSE LET response == Scan(tbl, a.kw, lekAtEnd) IN
       [resp |-> ListResult(response),
        locals |-> [calls |-> <<"scan">>, outs |-> <<Ok>>, kwargs |-> a.kw,
                    response |-> response, stored |-> tbl]]

\* a List that removes from the table the records it returns
ListScanConsuming(p) ==
  /\ req[p].pc = "idle"
  /\ \E event \in ListEvents, outcome \in Outcomes, lekAtEnd \in BOOLEAN :
       LET h == ListHandler(event, table, outcome, lekAtEnd)
           images == Get(h.resp.body, "images", <<>>)
           returned == {images[k].image_id : k \in 1..Len(images)}
       IN /\ req' = [req EXCEPT ![p] = Done("list", event, h.resp, h.locals)]
          /\ table' = [i \in DOMAIN table \ returned |-> table[i]]
  /\ UNCHANGED <<bucket, nextId, uploaded, deleted, issued, session>>

\* lines 30-119: the handler, with its one table.scan
ListScan(p) ==
  /\ req[p].pc = "idle"
  /\ \E event \in ListEvents, outcome \in Outcomes, lekAtEnd \in BOOLEAN :
       LET h == ListHandler(event, table, outcome, lekAtEnd) IN
       req' = [req EXCEPT ![p] = Done("list", event, h.resp, h.locals)]
  /\ UNCHANGED <<table, bucket, nextId, uploaded, deleted, issued, session>>

(***************************************************************************)
(* View (view_image.py)                                                    *)
(***************************************************************************)
DefaultExpiration == 3600

\* os.environ of the process that serves a View: the expiry unset or set
Environments == {[unset |-> TRUE], [PRESIGNED_URL_EXPIRATION |-> "2"]}

\* the expiry taken from the default whatever the environment says
PRESIGNED_URL_EXPIRATIONFixed(env) == DefaultExpiration

\* line 10: int(os.environ.get('PRESIGNED_URL_EXPIRATION', '3600'))
PRESIGNED_URL_EXPIRATION(env) ==
  IF "PRESIGNED_URL_EXPIRATION" \in DOMAIN env
  THEN IntOf(env.PRESIGNED_URL_EXPIRATION).v
  ELSE DefaultExpiration

PathEvents ==
  { [nothing |-> TRUE], [pathParameters |-> Null], [pathParameters |-> [image_id |-> ""]] }
  \cup { [pathParameters |-> [image_id |-> IdSeq[k]]] : k \in 1..MaxUploads }

ViewEvents ==
  PathEvents
  \cup { [pathParameters |-> [image_id |-> IdSeq[k]], queryStringParameters |-> q] :
           k \in 1..MaxUploads,
           q \in {Null} \cup [download : {"true", "TRUE", "false"}] }

\* str.lower() on the values the model sends
Lower(s) == IF s = "TRUE" THEN "true" ELSE s

\* table.get_item(Key={'image_id': image_id})
GetItem(tbl, image_id) ==
  IF image_id \in DOMAIN tbl THEN [Item |-> tbl[image_id]] ELSE [nothing |-> TRUE]

\* the hint attached whatever the download parameter says
PresignParamsAlwaysAttached(metadata, image_id, is_download) ==
  [Bucket |-> "image-storage-bucket", Key |-> metadata.s3_key,
   ResponseContentDisposition |->
     <<"attachment; filename=\"", Get(metadata, "title", image_id), ".jpg\"">>]

\* lines 90-96: the parameters of the grant
PresignParams(metadata, image_id, is_download) ==
  IF is_download
  THEN [Bucket |-> "image-storage-bucket", Key |-> metadata.s3_key,
        ResponseContentDisposition |->
          <<"attachment; filename=\"", Get(metadata, "title", image_id), ".jpg\"">>]
  ELSE [Bucket |-> "image-storage-bucket", Key |-> metadata.s3_key]

GeneratePresignedUrlChecked(params, expires) ==
  IF params.Key \in bucket THEN <<"https://", params, "X-Amz-Expires", expires>> ELSE <<>>

\* s3_client.generate_presigned_url: signs the request locally; the bucket
\* is not consulted
GeneratePresignedUrl(params, expires) ==
  <<"https://", params, "X-Amz-Expires", expires>>

S3KeyMissingAs500 == ErrorResponse(500, InternalError)

\* lines 76-86: the answer for a record without an s3_key
S3KeyMissing == ErrorResponse(404, "S3 key not found in metadata")

\* lines 35-86: validation, then table.get_item and the checks on the item
ViewGetItem(p) ==
  /\ req[p].pc = "idle"
  /\ \E event \in ViewEvents, outcome \in Outcomes :
       LET path_params == OrEmpty(event, "pathParameters")
           query_params == OrEmpty(event, "queryStringParameters")
       IN
       IF Falsy(path_params, "image_id", "")
       THEN /\ outcome = Ok
            /\ req' = [req EXCEPT ![p] = Done("view", event,
                 ErrorResponse(400, "Missing required parameter: image_id"),
                 [calls |-> <<>>, outs |-> <<>>])]
       ELSE LET image_id == path_params.image_id
                is_download == Lower(Get(query_params, "download", "false")) = "true"
                response == GetItem(table, image_id)
                ghost == [image_id |-> image_id, calls |-> <<"get_item">>,
                          outs |-> <<outcome>>,
                          lookup |-> outcome,
                          item |-> response,
                          after_delete |-> image_id \in deleted,
                          after_upload |-> image_id \in uploaded,
                          no_delete |-> image_id \notin issued]
            IN
            IF outcome = NoSuchKey
            THEN req' = [req EXCEPT ![p] = Done("view", event,
                   ErrorResponse(404, "Image not found in storage"), ghost)]
            ELSE IF outcome # Ok
            THEN req' = [req EXCEPT ![p] = Done("view", event, Raised(outcome), ghost)]
            ELSE IF "Item" \notin DOMAIN response
            THEN req' = [req EXCEPT ![p] = Done("view", event,
                   ErrorResponse(404, "Image not found"), ghost)]
            ELSE IF Falsy(response.Item, "s3_key", <<>>)
            THEN req' = [req EXCEPT ![p] = Done("view", event, S3KeyMissing, ghost)]
            ELSE req' = [req EXCEPT ![p] =
                   [pc |-> "presign", kind |-> "view", event |-> event,
                    locals |-> [image_id |-> image_id, calls |-> ghost.calls,
                                outs |-> ghost.outs,
                                lookup |-> outcome,
                                item |-> response,
                                after_delete |-> ghost.after_delete,
                                after_upload |-> ghost.after_upload,
                                no_delete |-> ghost.no_delete,
                                metadata |-> response.Item,
                                is_download |-> is_download,
                                blob_at_lookup |-> response.Item.s3_key \in bucket]]]
  /\ UNCHANGED <<table, bucket, nextId, uploaded, deleted, issued, session>>

\* lines 88-141: the grant and the 200 response, or the handler's answer to
\* the exception generate_presigned_url raised
ViewPresign(p) ==
  /\ req[p].pc = "presign"
  /\ \E outcome \in Outcomes, env \in Environments :
       LET l == req[p].locals
           params == PresignParams(l.metadata, l.image_id, l.is_download)
           locals == [image_id |-> l.image_id,
                      calls |-> Called(l.calls, "generate_presigned_url"),
                      outs |-> Append(l.outs, outcome),
                      lookup |-> l.lookup,
                      item |-> l.item,
                      grant |-> outcome,
                      after_delete |-> l.after_delete,
                      after_upload |-> l.after_upload,
                      no_delete |-> l.no_delete,
                      is_download |-> l.is_download,
                      params |-> params,
                      blob_at_lookup |-> l.blob_at_lookup,
                      blob_at_grant |-> l.metadata.s3_key \in bucket]
       IN
       IF outcome = Ok
       THEN req' = [req EXCEPT ![p] = Done("view", req[p].event,
              Response(200, [image_id |-> l.image_id, metadata |-> l.metadata,
                             presigned_url |->
                               GeneratePresignedUrl(params,
                                                    PRESIGNED_URL_EXPIRATION(env)),
                             expires_in |-> PRESIGNED_URL_EXPIRATION(env)]),
              locals @@ [env |-> env])]
       ELSE IF outcome = NoSuchKey
       THEN req' = [req EXCEPT ![p] = Done("view", req[p].event,
              ErrorResponse(404, "Image not found in storage"), locals)]
       ELSE req' = [req EXCEPT ![p] = Done("view", req[p].event, Raised(outcome), locals)]
  /\ UNCHANGED <<table, bucket, nextId, uploaded, deleted, issued, session>>

(***************************************************************************)
(* Delete (delete_image.py)                                                *)
(***************************************************************************)
DeleteItemSkipped(tbl, image_id) == tbl

\* table.delete_item(Key={'image_id': image_id})
DeleteItemFrom(tbl, image_id) == [i \in DOMAIN tbl \ {image_id} |-> tbl[i]]

LookupRaisedNever(outcome) == FALSE

\* lines 50-51: table.get_item raised, so control leaves the try block for
\* the except clauses
LookupRaised(outcome) == outcome # Ok

\* lines 30-65: validation, then table.get_item
DeleteGetItem(p) ==
  /\ req[p].pc = "idle"
  /\ \E event \in PathEvents, outcome \in Outcomes :
       LET path_params == OrEmpty(event, "pathParameters") IN
       IF Falsy(path_params, "image_id", "")
       THEN /\ outcome = Ok
            /\ req' = [req EXCEPT ![p] = Done("delete", event,
                 ErrorResponse(400, "Missing required parameter: image_id"),
                 [calls |-> <<>>, outs |-> <<>>])]
            /\ UNCHANGED issued
       ELSE LET image_id == path_params.image_id
                locals == [image_id |-> image_id, calls |-> <<"get_item">>,
                           outs |-> <<outcome>>]
                response == GetItem(table, image_id)
            IN
            /\ issued' = IF image_id \in DOMAIN table
                         THEN issued \cup {image_id} ELSE issued
            /\ IF LookupRaised(outcome)
               THEN req' = [req EXCEPT ![p] =
                      Done("delete", event, Raised(outcome), locals)]
               ELSE IF "Item" \notin DOMAIN response
               THEN req' = [req EXCEPT ![p] = Done("delete", event,
                      ErrorResponse(404, "Image not found"), locals)]
               ELSE req' = [req EXCEPT ![p] =
                      [pc |-> IF Falsy(response.Item, "s3_key", <<>>)
                              THEN "delete_item" ELSE "delete_object",
                       kind |-> "delete", event |-> event,
                       locals |-> [image_id |-> image_id, calls |-> locals.calls,
                                   outs |-> locals.outs,
                                   metadata |-> response.Item, s3 |-> "skipped",
                                   reissued |-> image_id \in issued,
                                   blob_at_lookup |->
                                     Get(response.Item, "s3_key", <<>>) \in bucket]]]
  /\ UNCHANGED <<table, bucket, nextId, uploaded, deleted, session>>

\* the except clause of lines 74-76 (except ClientError): which outcomes of delete_object let
\* the handler go on to the metadata delete
Swallowed(outcome) == outcome = Ok \/ IsClientError(outcome)

DeleteObjectKept(bkt, s3_key) == bkt

\* s3_client.delete_object(Bucket=S3_BUCKET_NAME, Key=s3_key): succeeds
\* whether or not the key is there
DeleteObjectFrom(bkt, s3_key) == bkt \ {s3_key}

\* lines 67-76: s3_client.delete_object
DeleteObject(p) ==
  /\ req[p].pc = "delete_object"
  /\ \E outcome \in Outcomes :
       LET l == req[p].locals
           locals == [image_id |-> l.image_id, calls |-> Called(l.calls, "delete_object"),
                      outs |-> Append(l.outs, outcome),
                      metadata |-> l.metadata, s3 |-> outcome,
                      reissued |-> l.reissued,
                      blob_at_lookup |-> l.blob_at_lookup]
       IN
       /\ bucket' = IF outcome = Ok THEN DeleteObjectFrom(bucket, l.metadata.s3_key)
                    ELSE bucket
       /\ IF Swallowed(outcome)
          THEN req' = [req EXCEPT ![p] = [pc |-> "delete_item", kind |-> "delete",
                                          event |-> req[p].event, locals |-> locals]]
          ELSE req' = [req EXCEPT ![p] =
                 Done("delete", req[p].event, Raised(outcome), locals)]
  /\ UNCHANGED <<table, nextId, uploaded, deleted, issued, session>>

DeleteItemAcceptedIfPresent(tbl, image_id) == image_id \in DOMAIN tbl

\* line 79: delete_item is called without a ConditionExpression, so the store
\* accepts it whether or not the record is still there
DeleteItemAccepted(tbl, image_id) == TRUE

\* lines 78-115: table.delete_item, the 200 response, the except clauses
DeleteItem(p) ==
  /\ req[p].pc = "delete_item"
  /\ \E outcome \in Outcomes :
       LET l == req[p].locals
           locals == [image_id |-> l.image_id, calls |-> Called(l.calls, "delete_item"),
                      outs |-> Append(l.outs, outcome),
                      metadata |-> l.metadata, s3 |-> l.s3, db |-> outcome,
                      reissued |-> l.reissued,
                      blob_at_lookup |-> l.blob_at_lookup]
       IN
       IF outcome = Ok /\ DeleteItemAccepted(table, l.image_id)
       THEN /\ table' = DeleteItemFrom(table, l.image_id)
            /\ req' = [req EXCEPT ![p] = Done("delete", req[p].event,
                 Response(200, [message |-> "Image deleted successfully",
                                image_id |-> l.image_id]), locals)]
       ELSE /\ UNCHANGED table
            /\ req' = [req EXCEPT ![p] =
                 Done("delete", req[p].event, Raised(outcome), locals)]
  /\ UNCHANGED <<bucket, nextId, uploaded, deleted, issued, session>>

(***************************************************************************)
(* The response reaches the caller                                         *)
(***************************************************************************)
Return(p) ==
  /\ req[p].pc = "done"
  /\ req' = [req EXCEPT ![p] = Idle]
  /\ uploaded' = IF req[p].kind = "upload" /\ req[p].resp.statusCode = 201
                 THEN uploaded \cup {req[p].resp.body.image_id} ELSE uploaded
  /\ deleted' = IF req[p].kind = "delete" /\ req[p].resp.statusCode = 200
                THEN deleted \cup {req[p].resp.body.image_id} ELSE deleted
  /\ UNCHANGED <<table, bucket, nextId, issued, session>>

NoSession == [active |-> FALSE]

(***************************************************************************)
(* A paging client on an unchanging table: it lists with some filters and  *)
(* passes the cursor of each response back with the same filters           *)
(***************************************************************************)
MaxPages == 4

\* the events of a first page: no cursor, a page size of at least 1
FirstPageEvents ==
  { e \in ListEvents :
      LET q == OrEmpty(e, "queryStringParameters") IN
      /\ "last_evaluated_key" \notin DOMAIN q
      /\ "limit" \in DOMAIN q => q.limit \in {"1", "2"}
      /\ "user_id" \in DOMAIN q => q.user_id # ""
      /\ "tag" \in DOMAIN q => q.tag # "" }

\* the same request with the cursor of the previous response
NextPageEvent(event, cursor) ==
  LET q == OrEmpty(event, "queryStringParameters") IN
  [queryStringParameters |->
     [k \in DOMAIN q \cup {"last_evaluated_key"} |->
        IF k = "last_evaluated_key" THEN cursor ELSE q[k]]]

ImageIds(images) == [k \in 1..Len(images) |-> images[k].image_id]

ClientPage(p, first, event) ==
  \E outcome \in Outcomes, lekAtEnd \in BOOLEAN :
     LET h == ListHandler(event, table, outcome, lekAtEnd) IN
     /\ req' = [req EXCEPT ![p] = Done("list", event, h.resp, h.locals)]
     /\ IF h.resp.statusCode = 200
        THEN session' =
               [active |-> TRUE, event |-> first,
                finished |-> ~h.resp.body.has_more,
                cursor |-> Get(h.resp.body, "last_evaluated_key", EmptyText),
                pages |-> IF session.active /\ ~session.finished
                          THEN session.pages + 1 ELSE 1,
                seen |-> IF session.active /\ ~session.finished
                         THEN session.seen \o ImageIds(h.resp.body.images)
                         ELSE ImageIds(h.resp.body.images)]
        ELSE UNCHANGED session

ClientFirstPage(p) ==
  /\ req[p].pc = "idle"
  /\ session.active => session.finished
  /\ \E event \in FirstPageEvents : ClientPage(p, event, event)
  /\ UNCHANGED <<table, bucket, nextId, uploaded, deleted, issued>>

ClientNextPage(p) ==
  /\ req[p].pc = "idle"
  /\ session.active /\ ~session.finished
  /\ session.pages < MaxPages
  /\ ClientPage(p, session.event, NextPageEvent(session.event, session.cursor))
  /\ UNCHANGED <<table, bucket, nextId, uploaded, deleted, issued>>

\* the records Upload can have written
UploadedItems(image_id) ==
  { UploadLocal(e, image_id).metadata : e \in {x \in UploadEvents : ~UploadLocal(x, image_id).ret} }

StoredTables ==
  UNION { { [i \in S |-> f[i]] :
              f \in { g \in [S -> UNION {UploadedItems(i) : i \in S}] :
                        \A i \in S : g[i].image_id = i } }
          : S \in SUBSET {IdSeq[k] : k \in 1..MaxUploads} }

PagingInit ==
  /\ table \in StoredTables
  /\ bucket = {table[i].s3_key : i \in DOMAIN table}
  /\ nextId = MaxUploads
  /\ req = [p \in Procs |-> Idle]
  /\ uploaded = DOMAIN table
  /\ deleted = {}
  /\ issued = {}
  /\ session = NoSession

PagingNext ==
  \E p \in Procs :
     \/ ClientFirstPage(p)
     \/ ClientNextPage(p)
     \/ Return(p)

PagingSpec == PagingInit /\ [][PagingNext]_vars

Init ==
  /\ table = [i \in {} |-> Null]
  /\ bucket = {}
  /\ nextId = 0
  /\ req = [p \in Procs |-> Idle]
  /\ uploaded = {}
  /\ deleted = {}
  /\ issued = {}
  /\ session = NoSession

Next ==
  \E p \in Procs :
     \/ UploadPutObject(p)
     \/ UploadPutItem(p)
     \/ ListScan(p)
     \/ ViewGetItem(p)
     \/ ViewPresign(p)
     \/ DeleteGetItem(p)
     \/ DeleteObject(p)
     \/ DeleteItem(p)
     \/ Return(p)

Spec == Init /\ [][Next]_vars

(***************************************************************************)
(* The same client when the stores never fail: every store call of every   *)
(* request returns normally.                                               *)
(***************************************************************************)
\* no store call of a request in progress or just answered has raised
NoFailure ==
  \A p \in DOMAIN req :
     req[p].pc # "idle"
     => \A k \in 1..Len(req[p].locals.outs) : req[p].locals.outs[k] = Ok

CalmNext ==
  \E p \in Procs :
     \/ UploadPutObject(p) /\ NoFailure'
     \/ UploadPutItem(p) /\ NoFailure'
     \/ ListScan(p) /\ NoFailure'
     \/ ViewGetItem(p) /\ NoFailure'
     \/ ViewPresign(p) /\ NoFailure'
     \/ DeleteGetItem(p) /\ NoFailure'
     \/ DeleteObject(p) /\ NoFailure'
     \/ DeleteItem(p) /\ NoFailure'
     \/ Return(p)

CalmSpec == Init /\ [][CalmNext]_vars

(***************************************************************************)
(* Two clients on a table that already holds records: one record Upload    *)
(* wrote, and possibly one that another writer stored without an s3_key    *)
(* (the case lines 76-86 of view_image.py answer).  The clients view and   *)
(* delete concurrently; every store call is one atomic step.               *)
(***************************************************************************)
StoredProcs == {"p1", "p2"}

\* a record Upload wrote under the first identifier
UploadedItem ==
  UploadLocal([body |-> [t |-> "dict",
                         v |-> [user_id |-> "u1", image_data |-> <<"A", "A", "A", "A">>,
                                tags |-> <<"a", "b">>]]],
              IdSeq[1]).metadata

\* a record of the table that has no s3_key attribute
KeylessItem == [image_id |-> IdSeq[2], user_id |-> "u1", title |-> "t"]

StoredInit ==
  /\ table \in { [i \in {IdSeq[1]} |-> UploadedItem],
                 [i \in {IdSeq[1], IdSeq[2]} |->
                    IF i = IdSeq[1] THEN UploadedItem ELSE KeylessItem] }
  /\ bucket = {UploadedItem.s3_key}
  /\ nextId = MaxUploads
  /\ req = [p \in StoredProcs |-> Idle]
  /\ uploaded = {IdSeq[1]}
  /\ deleted = {}
  /\ issued = {}
  /\ session = NoSession

StoredNext ==
  \E p \in StoredProcs :
     \/ ViewGetItem(p)
     \/ ViewPresign(p)
     \/ DeleteGetItem(p)
     \/ DeleteObject(p)
     \/ DeleteItem(p)
     \/ Return(p)

StoredSpec == StoredInit /\ [][StoredNext]_vars

(***************************************************************************)
(* Properties                                                              *)
(***************************************************************************)
IsDone(p, kind) == req[p].pc = "done" /\ req[p].kind = kind

Status(p) == req[p].resp.statusCode

Query(p) == OrEmpty(req[p].event, "queryStringParameters")

Images(p) == req[p].resp.body.images

Range(s) == {s[k] : k \in 1..Len(s)}

\* the object an Upload request carries: none when the body is absent or null
BodyDict(event) ==
  IF "body" \notin DOMAIN event \/ event.body.t = "null" THEN <<>>
  ELSE IF event.body.t = "dict" THEN event.body.v
  ELSE event.body.v.v.v

IsObjectBody(event) ==
  \/ "body" \notin DOMAIN event
  \/ event.body.t \in {"null", "dict"}
  \/ event.body.t = "str" /\ event.body.v.ok /\ event.body.v.v.t = "dict"

\* C1: whenever the blob delete of a Delete on an existing record fails, by
\* a ClientError or by any other exception, and the metadata delete does not
\* fail, the response is 200 and the record is gone from the table.
C1_BlobFailureNeverBlocksDelete ==
  \A p \in Procs :
     (/\ IsDone(p, "delete")
      /\ "s3" \in DOMAIN req[p].locals
      /\ req[p].locals.s3 \in {ClientError, NoSuchKey, OtherError}
      /\ "db" \in DOMAIN req[p].locals => req[p].locals.db = Ok)
     => /\ Status(p) = 200
        /\ req[p].locals.image_id \notin DOMAIN table

\* C2: a 200 List response to a request with a decodable cursor holds no
\* record at or before the cursor's position, whatever the filters.
C2_CursorIsExclusiveStart ==
  \A p \in Procs :
     (/\ IsDone(p, "list")
      /\ Status(p) = 200
      /\ "last_evaluated_key" \in DOMAIN Query(p)
      /\ Query(p).last_evaluated_key.ok)
     => \A k \in 1..Len(Images(p)) :
           Pos(Images(p)[k].image_id) > Pos(Query(p).last_evaluated_key.v.image_id)

\* the records of the table that satisfy the filters of a paging session
SessionMatches ==
  LET q == OrEmpty(session.event, "queryStringParameters") IN
  { i \in DOMAIN table :
      /\ "user_id" \in DOMAIN q => table[i].user_id = q.user_id
      /\ "tag" \in DOMAIN q => InSeq(q.tag, table[i].tags) }

\* C3: a paging client never receives a record twice, and once it has
\* received has_more = false it has received every matching record.
C3_PagesCoverMatchesOnce ==
  session.active =>
    /\ \A j, k \in 1..Len(session.seen) : session.seen[j] = session.seen[k] => j = k
    /\ session.finished => Range(session.seen) = SessionMatches

\* a record satisfies the filters of a query; a filter counts as supplied
\* when the parameter is present (literal) or present and non-empty
Satisfies(item, q, literal) ==
  /\ ("user_id" \in DOMAIN q /\ (literal \/ q.user_id # "")) => item.user_id = q.user_id
  /\ ("tag" \in DOMAIN q /\ (literal \/ q.tag # "")) => InSeq(q.tag, item.tags)

ListIsExact(p, literal) ==
  LET stored == req[p].locals.stored IN
  Range(ImageIds(Images(p))) = {i \in DOMAIN stored : Satisfies(stored[i], Query(p), literal)}

\* C4 as stated: every returned record satisfies every supplied filter, and
\* a request whose page size is at least the number of stored records
\* returns exactly the matching records.
C4_AsStated ==
  \A p \in Procs :
     (IsDone(p, "list") /\ Status(p) = 200)
     => /\ \A k \in 1..Len(Images(p)) : Satisfies(Images(p)[k], Query(p), TRUE)
        /\ req[p].locals.kwargs.Limit >= Cardinality(DOMAIN req[p].locals.stored)
           => ListIsExact(p, TRUE)

\* C4 amended: every returned record satisfies every non-empty filter, and
\* a request without a cursor whose page size is at least the number of
\* stored records returns exactly the records that satisfy them.
C4_FiltersAreConjunctive ==
  \A p \in Procs :
     (IsDone(p, "list") /\ Status(p) = 200)
     => /\ \A k \in 1..Len(Images(p)) : Satisfies(Images(p)[k], Query(p), FALSE)
        /\ (/\ req[p].locals.kwargs.Limit >= Cardinality(DOMAIN req[p].locals.stored)
            /\ Falsy(Query(p), "last_evaluated_key", EmptyText))
           => ListIsExact(p, FALSE)

C4_Witness ==
  \E p \in Procs :
     /\ IsDone(p, "list") /\ Status(p) = 200
     /\ Cardinality(DOMAIN req[p].locals.stored) = 2
     /\ req[p].locals.kwargs.Limit = 2
     /\ "last_evaluated_key" \notin DOMAIN Query(p)
     /\ ~Falsy(Query(p), "user_id", "") /\ ~Falsy(Query(p), "tag", "")
     /\ Len(Images(p)) = 1

\* C5: in a 200 List response has_more says whether the scan returned a
\* LastEvaluatedKey, the cursor is present exactly when has_more is true and
\* encodes that key, count is the number of images, and a scan without
\* items and without a key gives count 0 and has_more false.
C5_HasMoreIffContinuation ==
  \A p \in Procs :
     (IsDone(p, "list") /\ Status(p) = 200)
     => LET body == req[p].resp.body
            scan == req[p].locals.response
        IN /\ body.has_more <=> "LastEvaluatedKey" \in DOMAIN scan
           /\ "last_evaluated_key" \in DOMAIN body <=> body.has_more
           /\ body.has_more =>
                JsonLoads(body.last_evaluated_key).v = scan.LastEvaluatedKey
           /\ body.count = Len(scan.Items)
           /\ (Len(scan.Items) = 0 /\ "LastEvaluatedKey" \notin DOMAIN scan)
              => body.count = 0 /\ ~body.has_more

C5_Witness ==
  \E p \in Procs :
     /\ IsDone(p, "list") /\ Status(p) = 200
     /\ req[p].resp.body.has_more
     /\ req[p].resp.body.count = 0
     /\ "last_evaluated_key" \in DOMAIN req[p].resp.body

\* C6: an Upload that answers 201 returns a record whose s3_key is
\* user_id "/" image_id for the request's user_id and a non-empty image_id
\* that no other Upload returned, and every stored record's s3_key begins
\* with its user_id and "/".
C6_StorageKeyDerived ==
  /\ \A p \in Procs :
        (IsDone(p, "upload") /\ Status(p) = 201)
        => LET body == req[p].resp.body
               user_id == BodyDict(req[p].event).user_id
           IN /\ body.metadata.s3_key = <<user_id, "/", body.image_id>>
              /\ body.metadata.user_id = user_id
              /\ body.metadata.image_id = body.image_id
              /\ body.image_id \notin {"", None}
              /\ body.image_id \notin uploaded
              /\ \A o \in Procs \ {p} :
                    (IsDone(o, "upload") /\ Status(o) = 201)
                    => req[o].resp.body.image_id # body.image_id
  /\ \A i \in DOMAIN table :
        SubSeq(table[i].s3_key, 1, 2) = <<table[i].user_id, "/">>

C6_Witness ==
  \E p \in Procs :
     /\ IsDone(p, "upload") /\ Status(p) = 201
     /\ uploaded # {}
     /\ req[p].resp.body.image_id \in DOMAIN table

\* C7: an Upload whose body is absent, null, an object or the JSON text of
\* an object, and in which user_id or image_data is missing or empty, is
\* answered 400 with a message that names the two required fields.
C7_MissingFieldIs400 ==
  \A p \in Procs :
     (/\ IsDone(p, "upload")
      /\ IsObjectBody(req[p].event)
      /\ \/ Falsy(BodyDict(req[p].event), "user_id", "")
         \/ Falsy(BodyDict(req[p].event), "image_data", <<>>))
     => /\ Status(p) = 400
        /\ req[p].resp.body.error =
             "Missing required fields: user_id and image_data are required"

\* C8: an Upload with a user_id and an image_data that base64 cannot decode
\* is answered 400.
C8_UndecodableIs400 ==
  \A p \in Procs :
     (/\ IsDone(p, "upload")
      /\ IsObjectBody(req[p].event)
      /\ ~Falsy(BodyDict(req[p].event), "user_id", "")
      /\ ~Falsy(BodyDict(req[p].event), "image_data", <<>>)
      /\ B64Decode(BodyDict(req[p].event).image_data) < 0)
     => Status(p) = 400

C8_Witness ==
  \E p \in Procs :
     /\ IsDone(p, "upload")
     /\ IsObjectBody(req[p].event)
     /\ ~Falsy(BodyDict(req[p].event), "user_id", "")
     /\ Get(BodyDict(req[p].event), "image_data", <<>>) = <<"A", "A", "A">>
     /\ Status(p) = 400

\* a View issued after the Upload of its image_id returned 201 and a Delete
\* of it returned 200
ViewAfterDelete(p) ==
  /\ IsDone(p, "view")
  /\ "after_delete" \in DOMAIN req[p].locals
  /\ req[p].locals.after_delete
  /\ req[p].locals.after_upload

\* C9 as stated: every such View is answered 404.
C9_AsStated == \A p \in Procs : ViewAfterDelete(p) => Status(p) = 404

\* C9 amended: every such View is answered 404, or 500 when its own
\* metadata lookup fails with an error other than NoSuchKey; never 200.
C9_ViewAfterDeleteIsNotFound ==
  \A p \in Procs :
     ViewAfterDelete(p)
     => Status(p) = IF req[p].locals.lookup \in {ClientError, OtherError} THEN 500 ELSE 404

C9_Witness ==
  \E p \in Procs :
     /\ ViewAfterDelete(p)
     /\ req[p].locals.lookup = Ok
     /\ Status(p) = 404

\* C10: a View that finds the metadata record while the blob is absent from
\* the bucket, and whose grant call raises nothing, is answered 404.
C10_MissingBlobIs404 ==
  \A p \in Procs :
     (/\ IsDone(p, "view")
      /\ "grant" \in DOMAIN req[p].locals
      /\ req[p].locals.grant = Ok
      /\ ~req[p].locals.blob_at_lookup
      /\ ~req[p].locals.blob_at_grant)
     => Status(p) = 404

(***************************************************************************)
(* View: the grant and its parameters                                      *)
(***************************************************************************)
\* a View that called generate_presigned_url
ReachedGrant(p) ==
  /\ IsDone(p, "view")
  /\ Len(req[p].locals.calls) = 2

\* C11: a View with download=true requests the grant with the hint
\* attachment; filename="N.jpg", N being the record's title when that is
\* non-empty and the image_id otherwise.
C11_DownloadNameIsTitleOrId ==
  \A p \in DOMAIN req :
     (ReachedGrant(p) /\ req[p].locals.is_download)
     => LET m == req[p].locals.item.Item
            N == IF Falsy(m, "title", "") THEN req[p].locals.image_id ELSE m.title
        IN /\ "ResponseContentDisposition" \in DOMAIN req[p].locals.params
           /\ req[p].locals.params.ResponseContentDisposition
                = <<"attachment; filename=\"", N, ".jpg\"">>

\* C12: a View that reaches the grant passes a content-disposition hint,
\* and one that starts with "attachment", exactly when its download query
\* parameter is true in any letter case; otherwise it passes no hint.
C12_HintIffDownload ==
  \A p \in DOMAIN req :
     ReachedGrant(p)
     => LET params == req[p].locals.params
            q == Query(p)
            download == "download" \in DOMAIN q /\ q.download \in {"true", "TRUE"}
        IN /\ "ResponseContentDisposition" \in DOMAIN params <=> download
           /\ download => params.ResponseContentDisposition[1] = "attachment; filename=\""

C12_Witness ==
  \E p \in DOMAIN req :
     /\ ReachedGrant(p)
     /\ Query(p) = [download |-> "TRUE"]
     /\ Status(p) = 200
     /\ "ResponseContentDisposition" \in DOMAIN req[p].locals.params

\* a View of an image_id whose Upload was answered 201 and for which no
\* Delete had been issued when the View looked the record up
ViewOfStored(p) ==
  /\ IsDone(p, "view")
  /\ "after_upload" \in DOMAIN req[p].locals
  /\ req[p].locals.after_upload
  /\ req[p].locals.no_delete

\* the 200 answer the claim C13 describes: a non-empty URL, the stored
\* record, the configured expiry (3600 when unset), the grant requested
\* for the record's s3_key with that expiry
ViewGranted(p) ==
  LET l == req[p].locals
      body == req[p].resp.body
      expiry == IF "PRESIGNED_URL_EXPIRATION" \in DOMAIN l.env THEN 2 ELSE 3600
  IN /\ Status(p) = 200
     /\ l.calls = <<"get_item", "generate_presigned_url">>
     /\ body.image_id = l.image_id
     /\ body.presigned_url # <<>>
     /\ body.metadata = l.item.Item
     /\ body.expires_in = expiry
     /\ l.params.Key = l.item.Item.s3_key
     /\ body.presigned_url = GeneratePresignedUrl(l.params, expiry)

\* C13 as stated: every such View is answered 200 with the grant.
C13_AsStated == \A p \in DOMAIN req : ViewOfStored(p) => ViewGranted(p)

\* C13 amended: every such View whose two store calls raise nothing is
\* answered 200 with the grant; one whose metadata lookup or grant call
\* raises is answered 404 when the error is NoSuchKey and 500 otherwise,
\* and the grant is never requested after a lookup that raised.
C13_ViewOfStoredIsGranted ==
  \A p \in DOMAIN req :
     ViewOfStored(p)
     => LET l == req[p].locals IN
        /\ Len(l.outs) = Len(l.calls)
        /\ l.outs[1] # Ok => l.calls = <<"get_item">>
        /\ l.outs[1] = Ok => /\ l.calls = <<"get_item", "generate_presigned_url">>
                             /\ l.params.Key = l.item.Item.s3_key
        /\ IF \A k \in 1..Len(l.outs) : l.outs[k] = Ok
           THEN ViewGranted(p)
           ELSE Status(p) = IF l.outs[Len(l.outs)] = NoSuchKey THEN 404 ELSE 500

C13_Witness ==
  \E p \in DOMAIN req :
     /\ ViewOfStored(p)
     /\ ViewGranted(p)
     /\ req[p].resp.body.expires_in = 2

\* a View of a non-empty image_id that found no record, or a record without
\* an s3_key, or whose lookup raised while the table held no such record
ViewOfMissing(p) ==
  /\ IsDone(p, "view")
  /\ "item" \in DOMAIN req[p].locals
  /\ \/ "Item" \notin DOMAIN req[p].locals.item
     \/ Falsy(req[p].locals.item.Item, "s3_key", <<>>)

NotFoundMessages ==
  {"Image not found", "S3 key not found in metadata", "Image not found in storage"}

\* C14 as stated: every such View is answered 404 with a "not found"
\* message and requests no grant.
C14_AsStated ==
  \A p \in DOMAIN req :
     ViewOfMissing(p)
     => /\ Status(p) = 404
        /\ req[p].resp.body.error \in NotFoundMessages
        /\ req[p].locals.calls = <<"get_item">>

\* C14 amended: every such View requests no grant and is answered 404 with
\* a "not found" message, except that it is answered 500 when its lookup
\* raises an error other than NoSuchKey.
C14_MissingIsNotFound ==
  \A p \in DOMAIN req :
     ViewOfMissing(p)
     => /\ req[p].locals.calls = <<"get_item">>
        /\ IF req[p].locals.lookup \in {ClientError, OtherError}
           THEN Status(p) = 500
           ELSE /\ Status(p) = 404
                /\ req[p].resp.body.error \in NotFoundMessages

C14_Witness ==
  \E p \in DOMAIN req :
     /\ ViewOfMissing(p)
     /\ req[p].locals.lookup = Ok
     /\ "Item" \in DOMAIN req[p].locals.item
     /\ req[p].resp = ErrorResponse(404, "S3 key not found in metadata")

(***************************************************************************)
(* Responses and store calls of every handler                              *)
(***************************************************************************)
\* the statuses each handler documents
Documented(kind) ==
  CASE kind = "upload" -> {201, 400, 500}
    [] kind = "list" -> {200, 500}
    [] kind = "view" -> {200, 400, 404, 500}
    [] kind = "delete" -> {200, 400, 404, 500}

\* the k-th store call of request p raised something other than a
\* not-found error response, and it was not the blob delete of a Delete
\* raising an error response (which line 74 of delete_image.py swallows)
StoreFailure(p, k) ==
  LET l == req[p].locals IN
  /\ l.outs[k] \in {ClientError, OtherError}
  /\ ~(req[p].kind = "delete" /\ l.calls[k] = "delete_object" /\ l.outs[k] = ClientError)

\* C15: every finished request carries a response with a status of its
\* handler's documented set and a body, one outcome is recorded per store
\* call, and a request one of whose store calls failed (other than not
\* found, other than the swallowed blob delete) is answered 500.
C15_StructuredResponses ==
  \A p \in DOMAIN req :
     req[p].pc = "done"
     => LET l == req[p].locals IN
        /\ DOMAIN req[p].resp = {"statusCode", "body"}
        /\ Status(p) \in Documented(req[p].kind)
        /\ Status(p) >= 400 => DOMAIN req[p].resp.body = {"error"}
        /\ Len(l.outs) = Len(l.calls)
        /\ (\E k \in 1..Len(l.outs) : StoreFailure(p, k)) => Status(p) = 500

C15_Witness ==
  \E p \in DOMAIN req :
     /\ IsDone(p, "delete")
     /\ req[p].locals.calls = <<"get_item", "delete_object", "delete_item">>
     /\ req[p].locals.outs = <<Ok, ClientError, OtherError>>
     /\ req[p].resp = ErrorResponse(500, InternalError)

\* an Upload request that has called put_object
UploadCalled(p) ==
  /\ req[p].pc \in {"put_item", "done"}
  /\ req[p].kind = "upload"
  /\ Len(req[p].locals.calls) >= 1

\* C16: an Upload calls put_item only after its put_object succeeded, so
\* that the blob is in the bucket when the record is written; an Upload whose
\* put_object failed is answered 500 without calling put_item and leaves no
\* record; and every record no Delete was issued for has its blob stored.
C16_BlobBeforeRecord ==
  /\ \A p \in DOMAIN req :
        UploadCalled(p)
        => LET l == req[p].locals IN
           /\ l.calls[1] = "put_object"
           /\ Len(l.calls) = 2
              => /\ l.calls[2] = "put_item"
                 /\ l.outs[1] = Ok
                 /\ l.s3_key \in bucket
           /\ (req[p].pc = "put_item" \/ l.image_id \in DOMAIN table)
              => /\ l.outs[1] = Ok
                 /\ l.s3_key \in bucket
           /\ l.outs[1] # Ok
              => /\ req[p].pc = "done"
                 /\ Status(p) = 500
                 /\ l.calls = <<"put_object">>
                 /\ l.image_id \notin DOMAIN table
  /\ \A i \in DOMAIN table : i \notin issued => table[i].s3_key \in bucket

C16_Witness ==
  \E p \in DOMAIN req :
     /\ IsDone(p, "upload")
     /\ req[p].locals.calls = <<"put_object">>
     /\ req[p].locals.outs = <<ClientError>>
     /\ req[p].resp = ErrorResponse(500, AwsError)
     /\ req[p].locals.image_id \notin DOMAIN table
     /\ req[p].locals.s3_key \notin bucket

\* C17 as stated: no request makes more than two store calls.
C17_AsStated ==
  \A p \in DOMAIN req : req[p].pc # "idle" => Len(req[p].locals.calls) <= 2

\* the store calls a handler makes, in order, when none of them fails
CallsOf(kind) ==
  CASE kind = "upload" -> <<"put_object", "put_item">>
    [] kind = "list" -> <<"scan">>
    [] kind = "view" -> <<"get_item", "generate_presigned_url">>
    [] kind = "delete" -> <<"get_item", "delete_object", "delete_item">>

\* C17 amended: the store calls of a request are an initial part of its
\* handler's sequence (Delete possibly without delete_object), hence at
\* most two in Upload and View, one in List and three in Delete.
C17_CallsBounded ==
  \A p \in DOMAIN req :
     req[p].pc # "idle"
     => LET calls == req[p].locals.calls
            all == CallsOf(req[p].kind)
        IN \/ /\ Len(calls) <= Len(all)
              /\ calls = SubSeq(all, 1, Len(calls))
           \/ /\ req[p].kind = "delete"
              /\ calls = <<"get_item", "delete_item">>

C17_Witness ==
  \E p \in DOMAIN req :
     /\ IsDone(p, "delete")
     /\ Status(p) = 200
     /\ req[p].locals.calls = <<"get_item", "delete_object", "delete_item">>

(***************************************************************************)
(* Partial failures of Upload and Delete                                   *)
(***************************************************************************)
\* an Upload whose put_object succeeded and whose put_item raised
UploadHalfDone(p) ==
  /\ IsDone(p, "upload")
  /\ Len(req[p].locals.outs) = 2
  /\ req[p].locals.outs[1] = Ok
  /\ req[p].locals.outs[2] # Ok

\* the image_ids of the blobs left behind by such Uploads: in the bucket,
\* without a record, and not the blob of an Upload that is about to write
\* its record
Orphans ==
  { k[3] : k \in { b \in bucket :
                     /\ b[3] \notin DOMAIN table
                     /\ b[3] \notin uploaded
                     /\ \A p \in DOMAIN req :
                          ~(req[p].pc = "put_item" /\ req[p].locals.s3_key = b) } }

\* no request reaches an orphaned blob: View and Delete of its image_id stop
\* after the lookup without 200, and no List returns it
OrphansUnreachable ==
  \A p \in DOMAIN req :
     /\ ((IsDone(p, "view") \/ IsDone(p, "delete"))
         /\ "image_id" \in DOMAIN req[p].locals
         /\ req[p].locals.image_id \in Orphans)
        => /\ req[p].locals.calls = <<"get_item">>
           /\ Status(p) \in {404, 500}
     /\ (IsDone(p, "list") /\ Status(p) = 200)
        => \A k \in 1..Len(Images(p)) : Images(p)[k].image_id \notin Orphans

UploadHalfDoneLeavesOrphan ==
  \A p \in DOMAIN req :
     UploadHalfDone(p)
     => LET l == req[p].locals
            body == BodyDict(req[p].event)
        IN /\ Status(p) = 500
           /\ l.calls = <<"put_object", "put_item">>
           /\ l.s3_key = <<body.user_id, "/", l.image_id>>
           /\ l.s3_key \in bucket
           /\ l.image_id \notin DOMAIN table
           /\ l.image_id \in Orphans

\* C18: an Upload whose put_item fails after its put_object succeeded is
\* answered 500, calls nothing else, and leaves the blob under
\* user_id/image_id without a record; such a blob stays in the bucket
\* without a record in every later step, and no View, List or Delete
\* reaches it.
C18_OrphanedBlobStays ==
  /\ [](UploadHalfDoneLeavesOrphan /\ OrphansUnreachable)
  /\ [][Orphans \subseteq Orphans']_vars

C18_Witness ==
  \E p \in DOMAIN req :
     /\ UploadHalfDone(p)
     /\ req[p].resp = ErrorResponse(500, InternalError)
     /\ req[p].locals.s3_key \in bucket
     /\ req[p].locals.image_id \notin DOMAIN table

\* a Delete whose delete_object succeeded and whose delete_item raised
DeleteHalfDone(p) ==
  /\ IsDone(p, "delete")
  /\ req[p].locals.calls = <<"get_item", "delete_object", "delete_item">>
  /\ req[p].locals.outs[2] = Ok
  /\ req[p].locals.outs[3] # Ok

\* a Delete, all of whose store calls succeeded, of a record for which an
\* earlier Delete was issued and whose blob was gone at the lookup
DeleteAgain(p) ==
  /\ IsDone(p, "delete")
  /\ "reissued" \in DOMAIN req[p].locals
  /\ req[p].locals.reissued
  /\ ~req[p].locals.blob_at_lookup
  /\ \A k \in 1..Len(req[p].locals.outs) : req[p].locals.outs[k] = Ok

\* C19: a Delete whose delete_item fails after its delete_object succeeded
\* is answered 500 and leaves the record in the table with its blob gone;
\* a later Delete of that record whose store calls all succeed is answered
\* 200 and removes the record.
C19_RecordOutlivesBlob ==
  \A p \in DOMAIN req :
     /\ DeleteHalfDone(p)
        => /\ Status(p) = 500
           /\ req[p].locals.image_id \in DOMAIN table
           /\ table[req[p].locals.image_id] = req[p].locals.metadata
           /\ req[p].locals.metadata.s3_key \notin bucket
     /\ DeleteAgain(p)
        => /\ Status(p) = 200
           /\ req[p].resp.body.image_id = req[p].locals.image_id
           /\ req[p].locals.calls = <<"get_item", "delete_object", "delete_item">>
           /\ req[p].locals.image_id \notin DOMAIN table
           /\ req[p].locals.metadata.s3_key \notin bucket

C19_Witness ==
  \E p \in DOMAIN req :
     /\ DeleteAgain(p)
     /\ Status(p) = 200
     /\ req[p].locals.image_id \notin DOMAIN table

(***************************************************************************)
(* A View and a Delete of the same record, running concurrently            *)
(***************************************************************************)
\* a View that found the record and its s3_key and whose grant call returned
ViewSigned(p) ==
  /\ ReachedGrant(p)
  /\ req[p].locals.outs = <<Ok, Ok>>

\* C20: nothing makes a View depend on what a concurrent Delete does after
\* the View's lookup: a View that found the record and whose grant call
\* returned is answered 200 with the URL for the record's s3_key, also when
\* the blob and the record are gone by then.
C20_ViewIgnoresConcurrentDelete ==
  \A p \in DOMAIN req : ViewSigned(p) => ViewGranted(p)

\* the interleaving: the View's lookup saw the record and the blob, a Delete
\* of the same image_id has removed both and is answered 200, and the View
\* is answered 200 with a URL
C20_Witness ==
  \E p \in DOMAIN req, q \in DOMAIN req :
     /\ ViewSigned(p)
     /\ Status(p) = 200
     /\ req[p].resp.body.presigned_url # <<>>
     /\ req[p].locals.blob_at_lookup
     /\ IsDone(q, "delete")
     /\ Status(q) = 200
     /\ req[q].locals.image_id = req[p].locals.image_id
     /\ req[p].locals.image_id \notin DOMAIN table
     /\ req[p].locals.params.Key \notin bucket

(***************************************************************************)
(* Retries, scans and the lifetime of a record                             *)
(***************************************************************************)
\* the k-th store call of request p is the blob delete of a Delete
IsBlobDelete(p, k) ==
  req[p].kind = "delete" /\ req[p].locals.calls[k] = "delete_object"

\* C21: in every request a store call that failed, unless it is the blob
\* delete of a Delete, is the last call of the request, and the request
\* ends with an error response; no store call is made twice in a request.
C21_NoRetry ==
  \A p \in DOMAIN req :
     req[p].pc # "idle"
     => LET l == req[p].locals IN
        /\ Len(l.outs) = Len(l.calls)
        /\ \A k \in 1..Len(l.outs) :
              (l.outs[k] # Ok /\ ~IsBlobDelete(p, k))
              => /\ k = Len(l.calls)
                 /\ req[p].pc = "done"
                 /\ Status(p) >= 400
                 /\ "error" \in DOMAIN req[p].resp.body
        /\ \A j \in 1..Len(l.calls), k \in 1..Len(l.calls) :
              j # k => l.calls[j] # l.calls[k]

C21_Witness ==
  \E p \in DOMAIN req :
     /\ IsDone(p, "view")
     /\ req[p].locals.calls = <<"get_item", "generate_presigned_url">>
     /\ req[p].locals.outs = <<Ok, ClientError>>
     /\ req[p].resp = ErrorResponse(500, AwsError)

\* the List request's parameters do not parse: the limit is not an integer,
\* or no filter is supplied and the cursor is not JSON
Unparsable(q) ==
  \/ "limit" \in DOMAIN q /\ IntOf(q.limit).raised
  \/ /\ Falsy(q, "user_id", "")
     /\ Falsy(q, "tag", "")
     /\ ~Falsy(q, "last_evaluated_key", EmptyText)
     /\ ~q.last_evaluated_key.ok

\* the requested page_size, 100 when none is given
PageSize(q) == IF "limit" \in DOMAIN q THEN IntOf(q.limit).v ELSE 100

\* the page of a List answered 200 is what one scan with that limit
\* yields: the images are the scan's items, all among the first page_size
\* records the scan walks from its start position, and count is their number
OneScanPage(p) ==
  LET l == req[p].locals
      body == req[p].resp.body
      start == IF "ExclusiveStartKey" \in DOMAIN l.kwargs
               THEN Pos(l.kwargs.ExclusiveStartKey.image_id) ELSE 0
      walked == SelectSeq(IdSeq, LAMBDA i : i \in DOMAIN l.stored /\ Pos(i) > start)
      segment == {walked[k] : k \in 1..Min(l.kwargs.Limit, Len(walked))}
  IN /\ body.images = Get(l.response, "Items", <<>>)
     /\ body.count = Len(body.images)
     /\ body.count <= l.kwargs.Limit
     /\ \A k \in 1..Len(body.images) :
           /\ body.images[k].image_id \in segment
           /\ body.images[k] = l.stored[body.images[k].image_id]
     /\ \A j \in 1..Len(body.images), k \in 1..Len(body.images) :
           j < k => Pos(body.images[j].image_id) < Pos(body.images[k].image_id)

\* C22 as stated: every List request issues exactly one scan with the
\* requested limit and, answered 200, returns the page of that scan.
C22_AsStated ==
  \A p \in DOMAIN req :
     IsDone(p, "list")
     => /\ req[p].locals.calls = <<"scan">>
        /\ req[p].locals.kwargs.Limit = PageSize(Query(p))
        /\ Status(p) = 200 => OneScanPage(p)

\* C22 amended: a List request whose parameters do not parse issues no scan
\* and is answered 500; every other List request issues exactly one scan,
\* with the requested limit, and, answered 200, returns the page of that
\* scan.
C22_OneScanPerList ==
  \A p \in DOMAIN req :
     IsDone(p, "list")
     => IF Unparsable(Query(p))
        THEN /\ req[p].locals.calls = <<>>
             /\ Status(p) = 500
        ELSE /\ req[p].locals.calls = <<"scan">>
             /\ req[p].locals.kwargs.Limit = PageSize(Query(p))
             /\ Status(p) = 200 => OneScanPage(p)

\* a filtered page shorter than page_size although more is to come
C22_Witness ==
  \E p \in DOMAIN req :
     /\ IsDone(p, "list")
     /\ Status(p) = 200
     /\ ~Falsy(Query(p), "user_id", "")
     /\ req[p].resp.body.count < req[p].locals.kwargs.Limit
     /\ req[p].resp.body.has_more

\* every stored record carries its own key, the s3_key derived from its
\* owner and key, and one timestamp in both time fields
WrittenByUpload(item) ==
  /\ item.s3_key = <<item.user_id, "/", item.image_id>>
  /\ item.created_at = item.updated_at
  /\ item.created_at = <<"T", item.image_id>>

RecordsWellFormed ==
  /\ \A i \in DOMAIN table : table[i].image_id = i /\ WrittenByUpload(table[i])
  /\ \A p \in DOMAIN req :
        (IsDone(p, "upload") /\ Status(p) = 201)
        => /\ req[p].locals.image_id \in DOMAIN table
           /\ table[req[p].locals.image_id] = req[p].resp.body.metadata

\* one step: stored records stay as they are; a record appears only as the
\* metadata of an Upload about to write it, under an image_id never stored
\* before; a record disappears only in the delete_item of a Delete of it
RecordStep ==
  /\ \A i \in DOMAIN table \cap DOMAIN table' : table'[i] = table[i]
  /\ \A i \in DOMAIN table' \ DOMAIN table :
        /\ i \notin uploaded \cup deleted \cup issued
        /\ \E p \in DOMAIN req :
              /\ req[p].pc = "put_item"
              /\ req[p].locals.image_id = i
              /\ req[p].locals.metadata = table'[i]
  /\ \A i \in DOMAIN table \ DOMAIN table' :
        \E p \in DOMAIN req :
           /\ req[p].pc = "delete_item"
           /\ req[p].locals.image_id = i

\* C23: a record written by Upload keeps the values it was written with in
\* every step until a Delete removes it, created_at equals updated_at, and
\* an image_id is never written a second time.
C23_RecordsImmutable == []RecordsWellFormed /\ [][RecordStep]_vars

\* all identifiers are used up, one record has been deleted and another,
\* written before, is still stored
C23_Witness ==
  /\ nextId = MaxUploads
  /\ \E p \in DOMAIN req :
        /\ IsDone(p, "delete")
        /\ Status(p) = 200
        /\ req[p].locals.image_id \in uploaded \ DOMAIN table
  /\ \E i \in DOMAIN table : i \in uploaded

(***************************************************************************)
(* Which requests touch the stores                                         *)
(***************************************************************************)
\* the store calls that write or delete nothing
ReadCalls == {"scan", "get_item", "generate_presigned_url"}

\* request r is a List or a View, or it is answered 400, or it is a Delete
\* answered 404
ReadOnly(r) ==
  /\ r.pc # "idle"
  /\ \/ r.kind \in {"list", "view"}
     \/ r.pc = "done" /\ r.resp.statusCode = 400
     \/ r.pc = "done" /\ r.kind = "delete" /\ r.resp.statusCode = 404

\* C24: a List, a View, a request answered 400 and a Delete answered 404
\* issue only reading store calls, and none of their steps changes the
\* table or the bucket.
C24_ReadOnlyRequests ==
  /\ [](\A p \in DOMAIN req :
           ReadOnly(req[p])
           => \A k \in 1..Len(req[p].locals.calls) :
                 req[p].locals.calls[k] \in ReadCalls)
  /\ [][\A p \in DOMAIN req :
           (req'[p] # req[p] /\ ReadOnly(req'[p]))
           => table' = table /\ bucket' = bucket]_vars

C24_Witness ==
  \E p \in DOMAIN req :
     /\ IsDone(p, "delete")
     /\ Status(p) = 404
     /\ req[p].locals.calls = <<"get_item">>
     /\ req[p].locals.outs = <<Ok>>
     /\ DOMAIN table # {}
     /\ bucket # {}

(***************************************************************************)
(* The two stores when nothing fails                                       *)
(***************************************************************************)
\* no request is in the middle of its store calls
Quiescent == \A p \in DOMAIN req : req[p].pc \in {"idle", "done"}

\* C25: when no store call fails and requests do not overlap, after every
\* request the keys that hold a blob are exactly the s3_key values of the
\* stored records.
C25_StoresAgree ==
  Quiescent => bucket = {table[i].s3_key : i \in DOMAIN table}

C25_Witness ==
  /\ Quiescent
  /\ nextId = MaxUploads
  /\ deleted # {}
  /\ DOMAIN table # {}
  /\ bucket = {table[i].s3_key : i \in DOMAIN table}

(***************************************************************************)
(* Two Deletes of the same record, running concurrently                    *)
(***************************************************************************)
\* a Delete that has its answer and none of whose store calls raised
DeleteUnfailed(p) ==
  /\ IsDone(p, "delete")
  /\ "image_id" \in DOMAIN req[p].locals
  /\ \A k \in 1..Len(req[p].locals.outs) : req[p].locals.outs[k] = Ok

\* the Delete found the record at its lookup
FoundRecord(p) == "metadata" \in DOMAIN req[p].locals

\* C26: when two Deletes of the same image_id have both been answered, no
\* store call of either has failed, and the record existed when the first of
\* them looked it up, each is answered 200 or 404, at least one 200, and the
\* record and its blob are gone.
C26_ConcurrentDeletes ==
  \A p \in DOMAIN req, q \in DOMAIN req :
     (/\ p # q
      /\ DeleteUnfailed(p)
      /\ DeleteUnfailed(q)
      /\ req[p].locals.image_id = req[q].locals.image_id
      /\ FoundRecord(p))
     => /\ Status(p) = 200
        /\ Status(q) \in {200, 404}
        /\ Status(q) = 200 <=> FoundRecord(q)
        /\ req[p].locals.image_id \notin DOMAIN table
        /\ "s3_key" \in DOMAIN req[p].locals.metadata
           => req[p].locals.metadata.s3_key \notin bucket

\* both Deletes found the record before either removed it, and both are
\* answered 200
C26_Witness ==
  \E p \in DOMAIN req, q \in DOMAIN req :
     /\ p # q
     /\ DeleteUnfailed(p)
     /\ DeleteUnfailed(q)
     /\ req[p].locals.image_id = req[q].locals.image_id
     /\ FoundRecord(p) /\ FoundRecord(q)
     /\ req[p].locals.blob_at_lookup /\ req[q].locals.blob_at_lookup
     /\ Status(p) = 200 /\ Status(q) = 200
     /\ req[p].locals.image_id \notin DOMAIN table
     /\ req[p].locals.metadata.s3_key \notin bucket

====
